---- MODULE Spec2Model ----
(***************************************************************************)
(* Terrain-aware location placement of MapMakerDashboard:                  *)
(* analyzeTerrainForPlacement, findOptimalPlacement and the part of        *)
(* generateLocations that drives them.                                     *)
(*                                                                         *)
(* Coordinates, scores and colour channels are integers.  Math.random()    *)
(* is the fraction k / RandDen for a nondeterministic k in 0..RandDen-1;   *)
(* every expression the code computes from it is floored to an integer.    *)
(* Distances are compared squared, so that `distance < 80` is exact.       *)
(***************************************************************************)
EXTENDS Integers, Sequences, FiniteSets, TLC

(***************************************************************************)
(* Bounds of the model.                                                    *)
(***************************************************************************)
\* Math.random() takes the values k / RandDen, k in 0..RandDen-1.
RandDen == 3
\* The random stream read by one analysis run repeats with this period.
JitterPeriod == 2
\* A terrain image is made of this many vertical bands of one colour each.
ImgBands == 2
\* Longest list of locations on the map when a batch is requested.
MaxExisting == 1
\* Longest batch the generation service returns.
MaxBatch == 2
\* Number of generateLocations runs started.
MaxRuns == 1
\* The clock value up to which the user adds locations by hand.
MaxAdded == 2

\* Map sizes the settings are given (the inputs accept any integer).
MapWidths == {60, 200}
MapHeights == {120}
\* Coordinates the user gives a hand-placed location (canvas clicks).
ClickXs == {50, 130}
ClickYs == {50}

(***************************************************************************)
(* Program constants.                                                      *)
(***************************************************************************)
sampleSize == 20
WaterMargin == 30
DarkBelow == 50
BrightAbove == 200
ModerateLow == 80
ModerateHigh == 160
BaseScore == 100
WaterPenalty == 80
DarkPenalty == 60
BrightPenalty == 20
ModerateBonus == 30
ScoreJitterSpan == 20
KeepThreshold == 40
AvoidRadius == 30
MaxAttempts == 50
MinDistance == 80
Margin == 50
AcceptThreshold == 50
OffsetSpan == 40

LocationTypes == {"mission", "landmark", "shop", "npc", "resource"}

(***************************************************************************)
(* Pixels and terrain images.                                              *)
(***************************************************************************)
Pixel(r, g, b) == [r |-> r, g |-> g, b |-> b]

Grey == Pixel(120, 120, 120)
White == Pixel(255, 255, 255)
Black == Pixel(0, 0, 0)
Blue == Pixel(0, 0, 255)
Navy == Pixel(0, 0, 100)

Palette == {Grey, White, Black, Blue, Navy}

\* terrainImage === null: an image of no bands
NoImage == << >>

\* A loaded image: the colour of each vertical band, left to right.
Images == [1..ImgBands -> Palette]

\* ctx.drawImage stretches the image over the whole canvas; data[index..]
\* is the pixel of canvas column x, row y.
PixelAt(img, x, y, w) == img[((x * ImgBands) \div w) + 1]

(***************************************************************************)
(* Math.random() and what the code computes from it.                       *)
(***************************************************************************)
RandomDraws == 0..(RandDen - 1)

\* ScoreJitter with five times the span: Math.random() * 100 - 50.
ScoreJitterWide(k) == ((k * 5 * ScoreJitterSpan) \div RandDen) - 50

\* Math.random() * 20 - 10
ScoreJitter(k) == ((k * ScoreJitterSpan) \div RandDen) - 10

\* PlacementOffset with twice the span: (Math.random() - 0.5) * 80.
PlacementOffsetDouble(k) == ((k * 2 * OffsetSpan) \div RandDen) - OffsetSpan

\* (Math.random() - 0.5) * 40
PlacementOffset(k) == ((k * OffsetSpan) \div RandDen) - (OffsetSpan \div 2)

\* Math.random() * (size - 100) + 50
RandomCoordinate(k, size) == ((k * (size - 2 * Margin)) \div RandDen) + Margin

\* Math.max(50, Math.min(size - 50, v))
Max(a, b) == IF a >= b THEN a ELSE b
Min(a, b) == IF a <= b THEN a ELSE b
Clamp(v, size) == Max(Margin, Min(size - Margin, v))

\* (a.x - b.x) ** 2 + (a.y - b.y) ** 2, the square of the code's distance
Dist2(ax, ay, bx, by) == (ax - bx) * (ax - bx) + (ay - by) * (ay - by)

(***************************************************************************)
(* analyzeTerrainForPlacement                                              *)
(***************************************************************************)
\* brightness = (r + g + b) / 3, compared without dividing
Sum3(p) == p.r + p.g + p.b
isWater(p) == p.b > p.r + WaterMargin /\ p.b > p.g + WaterMargin
isVeryDark(p) == Sum3(p) < 3 * DarkBelow
isVeryBright(p) == Sum3(p) > 3 * BrightAbove
isModerate(p) == Sum3(p) >= 3 * ModerateLow /\ Sum3(p) <= 3 * ModerateHigh

\* BaseScoreOf with the dark test ahead of the water test.
BaseScoreOfDarkFirst(p) ==
  LET penalty == IF isVeryDark(p) THEN DarkPenalty
                 ELSE IF isWater(p) THEN WaterPenalty
                 ELSE IF isVeryBright(p) THEN BrightPenalty
                 ELSE 0
      bonus == IF isModerate(p) THEN ModerateBonus ELSE 0
  IN BaseScore - penalty + bonus

\* The score of a pixel before the random term is added.
BaseScoreOf(p) ==
  LET penalty == IF isWater(p) THEN WaterPenalty
                 ELSE IF isVeryDark(p) THEN DarkPenalty
                 ELSE IF isVeryBright(p) THEN BrightPenalty
                 ELSE 0
      bonus == IF isModerate(p) THEN ModerateBonus ELSE 0
  IN BaseScore - penalty + bonus

\* The values the loop variable takes: for (v = 20; v < size - 20; v += 20)
GridCount(size) ==
  IF size - sampleSize <= sampleSize THEN 0
  ELSE ((size - 2 * sampleSize - 1) \div sampleSize) + 1

\* The samples in the order the nested loops visit them: x outer, y inner.
SampleCount(w, h) == GridCount(w) * GridCount(h)
SampleX(k, h) == sampleSize * (((k - 1) \div GridCount(h)) + 1)
SampleY(k, h) == sampleSize * (((k - 1) % GridCount(h)) + 1)

\* The jitter streams of one analysis run.
Tapes == [0..(JitterPeriod - 1) -> RandomDraws]

\* The final score of the k-th sample.
SampleScore(img, w, h, tape, k) ==
  BaseScoreOf(PixelAt(img, SampleX(k, h), SampleY(k, h), w))
    + ScoreJitter(tape[(k - 1) % JitterPeriod])

\* KeepSample with the comparison turned around.
KeepSampleBelow(score) == score < KeepThreshold

\* KeepSample with >= for >.
KeepSampleInclusive(score) == score >= KeepThreshold

KeepSample(score) == score > KeepThreshold

\* The numbers 1..n of the samples, in loop order.
SampleNumbers(w, h) == [k \in 1..SampleCount(w, h) |-> k]

\* suitableAreas before the sort, in loop order
CollectSuitable(img, w, h, tape) ==
  LET kept == SelectSeq(SampleNumbers(w, h),
                        LAMBDA k : KeepSample(SampleScore(img, w, h, tape, k)))
  IN [i \in DOMAIN kept |->
        [x |-> SampleX(kept[i], h), y |-> SampleY(kept[i], h),
         score |-> SampleScore(img, w, h, tape, kept[i])]]

\* EmitsAvoid with the push also made in the dark branch.
EmitsAvoidDarkToo(p) == isWater(p) \/ isVeryDark(p)

EmitsAvoid(p) == isWater(p)

\* CollectAvoid with the push left out.
CollectAvoidNone(img, w, h) == << >>

\* avoidAreas, in loop order
CollectAvoid(img, w, h) ==
  LET water == SelectSeq(SampleNumbers(w, h),
                         LAMBDA k : EmitsAvoid(PixelAt(img, SampleX(k, h), SampleY(k, h), w)))
  IN [i \in DOMAIN water |->
        [x |-> SampleX(water[i], h), y |-> SampleY(water[i], h), radius |-> AvoidRadius]]

\* suitableAreas.sort((a, b) => b.score - a.score): a stable sort, highest
\* score first, entries of equal score in their earlier order.
RECURSIVE SortFrom(_, _)
SortFrom(s, scores) ==
  IF scores = {} THEN << >>
  ELSE LET top == CHOOSE v \in scores : \A u \in scores : u <= v
       IN SelectSeq(s, LAMBDA a : a.score = top) \o SortFrom(s, scores \ {top})

\* SortByScore with the sort left out.
SortByScoreSkipped(s) == s

SortByScore(s) == SortFrom(s, {s[i].score : i \in DOMAIN s})

\* analyzeTerrainForPlacement without the early return: a missing image is
\* read as the blank canvas it leaves.
analyzeBlankCanvas(img, w, h, tape) ==
  LET drawn == IF img = NoImage THEN [b \in 1..ImgBands |-> Black] ELSE img
  IN [suitableAreas |-> SortByScore(CollectSuitable(drawn, w, h, tape)),
      avoidAreas |-> CollectAvoid(drawn, w, h)]

analyzeTerrainForPlacement(img, w, h, tape) ==
  IF img = NoImage
  THEN [suitableAreas |-> << >>, avoidAreas |-> << >>]
  ELSE [suitableAreas |-> SortByScore(CollectSuitable(img, w, h, tape)),
        avoidAreas |-> CollectAvoid(img, w, h)]

(***************************************************************************)
(* findOptimalPlacement                                                    *)
(***************************************************************************)
\* Whether (x, y) is at distance >= 80 from every location of locs.
FarFromAll(locs, x, y) ==
  \A i \in DOMAIN locs : Dist2(locs[i].x, locs[i].y, x, y) >= 80 * 80

\* tooClose looking at the first location only.
tooCloseFirstOnly(existing, x, y) ==
  /\ Len(existing) > 0
  /\ Dist2(existing[1].x, existing[1].y, x, y) < MinDistance * MinDistance

\* existingLocations.some(loc => distance < 80)
tooClose(existing, x, y) ==
  \E i \in DOMAIN existing :
    Dist2(existing[i].x, existing[i].y, x, y) < MinDistance * MinDistance

\* avoidAreas.some(avoid => distance < avoid.radius)
inAvoidArea(avoid, x, y) ==
  \E i \in DOMAIN avoid :
    Dist2(avoid[i].x, avoid[i].y, x, y) < avoid[i].radius * avoid[i].radius

\* typeBonus with the resource bonus given from the keep threshold on.
typeBonusFromKept(locationType, score) ==
  IF locationType = "landmark" /\ score > 80 THEN 20
  ELSE IF locationType = "shop" /\ score > 60 /\ score < 90 THEN 15
  ELSE IF locationType = "mission" /\ score > 70 THEN 10
  ELSE IF locationType = "resource" /\ score > KeepThreshold THEN 25
  ELSE IF locationType = "npc" /\ score > 60 THEN 15
  ELSE 0

typeBonus(locationType, score) ==
  IF locationType = "landmark" /\ score > 80 THEN 20
  ELSE IF locationType = "shop" /\ score > 60 /\ score < 90 THEN 15
  ELSE IF locationType = "mission" /\ score > 70 THEN 10
  ELSE IF locationType = "resource" /\ score > 50 THEN 25
  ELSE IF locationType = "npc" /\ score > 60 THEN 15
  ELSE 0

\* Accepts without the avoid-region test.
AcceptsWithoutAvoidTest(area, locationType, existing, avoid) ==
  /\ ~tooClose(existing, area.x, area.y)
  /\ area.score + typeBonus(locationType, area.score) > AcceptThreshold

\* if (!tooClose && !inAvoidArea && finalScore > 50)
Accepts(area, locationType, existing, avoid) ==
  /\ ~tooClose(existing, area.x, area.y)
  /\ ~inAvoidArea(avoid, area.x, area.y)
  /\ area.score + typeBonus(locationType, area.score) > AcceptThreshold

\* for (const area of suitableAreas): the index of the first accepted
\* candidate from position i on, 0 when the loop runs off the list.
RECURSIVE FirstAccepted(_, _, _, _, _)
FirstAccepted(areas, i, locationType, existing, avoid) ==
  IF i > Len(areas) THEN 0
  ELSE IF Accepts(areas[i], locationType, existing, avoid) THEN i
  ELSE FirstAccepted(areas, i + 1, locationType, existing, avoid)

\* The coordinate returned for an accepted candidate.
JitteredX(area, k, w) == Clamp(area.x + PlacementOffset(k), w)
JitteredY(area, k, h) == Clamp(area.y + PlacementOffset(k), h)

(***************************************************************************)
(* State.                                                                  *)
(***************************************************************************)
VARIABLES
  width, height,      \* mapSettings.width, mapSettings.height
  terrainImage,       \* the loaded terrain image, or NoImage
  locations,          \* the locations on the map
  pc,                 \* where generateLocations stands
  closure,            \* what the running generateLocations sees of the state
  batch,              \* object.locations: the types of the returned items
  suitableAreas,      \* terrainAnalysis.suitableAreas
  avoidAreas,         \* terrainAnalysis.avoidAreas
  newLocations,       \* the placements of this batch so far
  attempts,           \* the loop counter of the random path
  call,               \* the latest findOptimalPlacement call
  runs,               \* generateLocations runs started so far
  jitter,             \* the random stream read by the latest analysis applied alone
  isAddingLocation,   \* whether the add-location form is open
  newLocation,        \* the add-location form
  selectedLocation,   \* the selected location, or NoSelection
  now,                \* Date.now(), as far as the ids made from it differ
  terrainImageUrl,    \* the url of the generated terrain, or NoUrl
  terrainImageSrc,    \* img.src of terrainImage: the url it was loaded from
  loading,            \* the urls of the images whose load is under way
  isGeneratingTerrain,
  terrainRuns,        \* generateTerrain runs started so far
  isGenerating,       \* icon generator: a handleGenerateIcon run is pending
  generationProgress, \* icon generator: the progress shown
  timers,             \* icon generator: the runs whose interval is still set
  iconRuns,           \* icon generator: handleGenerateIcon runs started so far
  iconForm,           \* icon generator: the form (required fields, batchCount)
  generatedIcons      \* icon generator: the icons made, newest first

vars == << width, height, terrainImage, locations, pc, closure, batch,
           suitableAreas, avoidAreas, newLocations, attempts, call, runs,
           jitter, isAddingLocation, newLocation, selectedLocation, now,
           terrainImageUrl, terrainImageSrc, loading, isGeneratingTerrain,
           terrainRuns, isGenerating, generationProgress, timers, iconRuns,
           iconForm, generatedIcons >>

settings == << width, height, terrainImage >>
analysis == << suitableAreas, avoidAreas >>
form == << isAddingLocation, newLocation, selectedLocation >>
engine == << pc, closure, batch, analysis, newLocations, attempts, call, runs >>
terrainGen == << terrainImageUrl, terrainImageSrc, loading, isGeneratingTerrain, terrainRuns >>
iconGen == << isGenerating, generationProgress, timers, iconRuns, iconForm, generatedIcons >>
elsewhere == << terrainGen, iconGen >>

\* path: how the call returned ("retry" while its loop is still running);
\* candidate: the index of the accepted candidate; drawX, drawY: the random
\* draw that was returned; tested: the draws or candidates examined so far;
\* far: whether the draw tested last was >= 80 away from every location.
NoCall == [path |-> "none", candidate |-> 0, drawX |-> 0, drawY |-> 0, tested |-> 0,
           far |-> TRUE]
NoClosure == [locations |-> << >>, terrainImage |-> NoImage, width |-> 0, height |-> 0]

Location(id, x, y, type) == [id |-> id, x |-> x, y |-> y, type |-> type, visible |-> TRUE]

\* No analysis applied alone yet; no location selected; the form as it is reset.
NoTape == << >>
NoSelection == [id |-> << "none", 0 >>, x |-> 0, y |-> 0, type |-> "none", visible |-> FALSE]
NoUrl == 0
EmptyForm == [type |-> "landmark", named |-> FALSE, x |-> 0, y |-> 0]
\* The icon form as constructed and as reset: no category, prompt or style.
EmptyIconForm == [filled |-> FALSE, batchCount |-> 1]

\* The state outside the placement engine, as the component is constructed.
FormClosed ==
  /\ jitter = NoTape
  /\ isAddingLocation = FALSE
  /\ newLocation = EmptyForm
  /\ selectedLocation = NoSelection

\* The rest of the component and the icon generator, at rest: a terrain
\* image on the map was loaded from the url of the one run that made it, and
\* every location on the map took its id from an earlier Date.now().
ElsewhereIdle ==
  /\ now = Len(locations) + 1
  /\ terrainImageUrl = (IF terrainImage = NoImage THEN NoUrl ELSE 1)
  /\ terrainImageSrc = terrainImageUrl
  /\ loading = {}
  /\ isGeneratingTerrain = FALSE
  /\ terrainRuns = (IF terrainImage = NoImage THEN 0 ELSE 1)
  /\ isGenerating = FALSE
  /\ generationProgress = 0
  /\ timers = {}
  /\ iconRuns = 0
  /\ iconForm = EmptyIconForm
  /\ generatedIcons = << >>

\* Lists of hand-placed locations of length at most n.
RECURSIVE HandPlaced(_)
HandPlaced(n) ==
  IF n = 0 THEN {<< >>}
  ELSE LET shorter == HandPlaced(n - 1)
       IN shorter \cup
          {Append(l, Location(<< "location", n >>, x, y, "landmark")) :
             l \in {s \in shorter : Len(s) = n - 1}, x \in ClickXs, y \in ClickYs}

\* The item types the generation service answers with.
ServiceTypes == {"resource"}

Batches == UNION {[1..n -> ServiceTypes] : n \in 0..MaxBatch}

Init ==
  /\ width \in MapWidths
  /\ height \in MapHeights
  /\ terrainImage \in {NoImage} \cup Images
  /\ locations \in HandPlaced(MaxExisting)
  /\ pc = "idle"
  /\ closure = NoClosure
  /\ batch = << >>
  /\ suitableAreas = << >>
  /\ avoidAreas = << >>
  /\ newLocations = << >>
  /\ attempts = 0
  /\ call = NoCall
  /\ runs = 0
  /\ FormClosed
  /\ ElsewhereIdle

(***************************************************************************)
(* generateLocations                                                       *)
(***************************************************************************)
\* The button is disabled while a run is pending and when there is neither
\* a terrain image nor a location.
GenerateLocations ==
  /\ pc = "idle"
  /\ terrainImage # NoImage \/ Len(locations) > 0
  /\ runs < MaxRuns
  /\ runs' = runs + 1
  /\ pc' = "awaiting"
  /\ closure' = [locations |-> locations, terrainImage |-> terrainImage,
                 width |-> width, height |-> height]
  /\ UNCHANGED << elsewhere, now, form, jitter, settings, locations, batch, analysis, newLocations,
                  attempts, call >>

\* The catch block putting back the list the run saw when it was started:
\* setLocations(locations).
ServiceRejectsRestoring ==
  /\ pc = "awaiting"
  /\ pc' = "idle"
  /\ closure' = NoClosure
  /\ locations' = closure.locations
  /\ UNCHANGED << elsewhere, now, form, jitter, settings, batch, analysis, newLocations,
                  attempts, call, runs >>

\* blink.ai.generateObject throws: catch, finally.
ServiceRejects ==
  /\ pc = "awaiting"
  /\ pc' = "idle"
  /\ closure' = NoClosure
  /\ UNCHANGED << elsewhere, now, form, jitter, settings, locations, batch, analysis, newLocations,
                  attempts, call, runs >>

\* blink.ai.generateObject resolves: the terrain is analysed once.
ServiceResolves(items, tape) ==
  /\ pc = "awaiting"
  /\ LET a == analyzeTerrainForPlacement(closure.terrainImage, closure.width,
                                         closure.height, tape)
     IN /\ suitableAreas' = a.suitableAreas
        /\ avoidAreas' = a.avoidAreas
  /\ batch' = items
  /\ newLocations' = << >>
  /\ attempts' = 0
  /\ call' = NoCall
  /\ pc' = "placing"
  /\ UNCHANGED << elsewhere, now, form, jitter, settings, locations, closure, runs >>

\* [...existingLocations, ...newLocations]
existingLocations == closure.locations \o newLocations
locationType == batch[Len(newLocations) + 1]
InCall == pc = "placing" /\ Len(newLocations) < Len(batch)

\* Return that also takes the accepted candidate off suitableAreas.
ReturnConsuming(x, y, c) ==
  /\ newLocations' = Append(newLocations,
                            Location(<< "generated", now, Len(newLocations) >>, x, y,
                                     locationType))
  /\ call' = c
  /\ attempts' = 0
  /\ suitableAreas' = SelectSeq(suitableAreas,
                                LAMBDA a : c.candidate = 0 \/ a # suitableAreas[c.candidate])
  /\ UNCHANGED << elsewhere, now, form, jitter, settings, locations, pc, closure, batch, avoidAreas, runs >>

\* findOptimalPlacement returns { x, y }; the forEach body pushes the location.
Return(x, y, c) ==
  /\ newLocations' = Append(newLocations,
                            Location(<< "generated", now, Len(newLocations) >>, x, y,
                                     locationType))
  /\ call' = c
  /\ attempts' = 0
  /\ UNCHANGED << elsewhere, now, form, jitter, settings, locations, pc, closure, batch, analysis, runs >>

\* NextAttempt with the increment left out.
NextAttemptStuck(a) == a

\* attempts++
NextAttempt(a) == a + 1

\* One turn of the while loop of the random path.
RandomAttempt(kx, ky) ==
  /\ InCall
  /\ Len(suitableAreas) = 0
  /\ attempts < MaxAttempts
  /\ LET x == RandomCoordinate(kx, closure.width)
         y == RandomCoordinate(ky, closure.height)
         far == FarFromAll(existingLocations, x, y)
     IN IF ~tooClose(existingLocations, x, y)
        THEN Return(x, y, [path |-> "draw", candidate |-> 0, drawX |-> x, drawY |-> y,
                           tested |-> attempts + 1, far |-> far])
        ELSE /\ attempts' = NextAttempt(attempts)
             /\ call' = [path |-> "retry", candidate |-> 0, drawX |-> 0, drawY |-> 0,
                         tested |-> attempts + 1, far |-> far]
             /\ UNCHANGED << elsewhere, now, form, jitter, settings, locations, pc, closure, batch, analysis,
                             newLocations, runs >>

\* The return after the while loop.
RandomLastResort(kx, ky) ==
  /\ InCall
  /\ Len(suitableAreas) = 0
  /\ attempts >= MaxAttempts
  /\ LET x == RandomCoordinate(kx, closure.width)
         y == RandomCoordinate(ky, closure.height)
     IN Return(x, y, [path |-> "lastResort", candidate |-> 0, drawX |-> x,
                      drawY |-> y, tested |-> attempts,
                      far |-> FarFromAll(existingLocations, x, y)])

\* The for loop over suitableAreas accepts a candidate.
TerrainCandidate(kx, ky) ==
  /\ InCall
  /\ Len(suitableAreas) > 0
  /\ LET i == FirstAccepted(suitableAreas, 1, locationType, existingLocations, avoidAreas)
     IN /\ i > 0
        /\ Return(JitteredX(suitableAreas[i], kx, closure.width),
                  JitteredY(suitableAreas[i], ky, closure.height),
                  [path |-> "terrain", candidate |-> i, drawX |-> 0, drawY |-> 0,
                   tested |-> i, far |-> TRUE])

\* The for loop runs off the list: the final return.
TerrainFallback(kx, ky) ==
  /\ InCall
  /\ Len(suitableAreas) > 0
  /\ FirstAccepted(suitableAreas, 1, locationType, existingLocations, avoidAreas) = 0
  /\ LET x == RandomCoordinate(kx, closure.width)
         y == RandomCoordinate(ky, closure.height)
     IN Return(x, y, [path |-> "fallback", candidate |-> 0, drawX |-> x, drawY |-> y,
                      tested |-> Len(suitableAreas),
                      far |-> FarFromAll(existingLocations, x, y)])

\* Commit appending to the locations the run saw when it was started:
\* setLocations([...locations, ...newLocations]).
CommitFromClosure ==
  /\ pc = "placing"
  /\ Len(newLocations) = Len(batch)
  /\ locations' = closure.locations \o newLocations
  /\ pc' = "idle"
  /\ closure' = NoClosure
  /\ batch' = << >>
  /\ suitableAreas' = << >>
  /\ avoidAreas' = << >>
  /\ newLocations' = << >>
  /\ attempts' = 0
  /\ call' = NoCall
  /\ UNCHANGED << elsewhere, form, jitter, settings, runs >>
  /\ now' = now + 1

\* setLocations(prev => [...prev, ...newLocations]); finally.
Commit ==
  /\ pc = "placing"
  /\ Len(newLocations) = Len(batch)
  /\ locations' = locations \o newLocations
  /\ pc' = "idle"
  /\ closure' = NoClosure
  /\ batch' = << >>
  /\ suitableAreas' = << >>
  /\ avoidAreas' = << >>
  /\ newLocations' = << >>
  /\ attempts' = 0
  /\ call' = NoCall
  /\ UNCHANGED << elsewhere, form, jitter, settings, runs >>
  /\ now' = now + 1

Next ==
  \/ GenerateLocations
  \/ ServiceRejects
  \/ \E items \in Batches, tape \in Tapes : ServiceResolves(items, tape)
  \/ \E kx \in RandomDraws, ky \in RandomDraws : RandomAttempt(kx, ky)
  \/ \E kx \in RandomDraws, ky \in RandomDraws : RandomLastResort(kx, ky)
  \/ \E kx \in RandomDraws, ky \in RandomDraws : TerrainCandidate(kx, ky)
  \/ \E kx \in RandomDraws, ky \in RandomDraws : TerrainFallback(kx, ky)
  \/ Commit

Spec == Init /\ [][Next]_vars

(***************************************************************************)
(* Scenario 4: five resources on an empty 1200 x 800 map whose terrain is  *)
(* uniform moderate brightness.                                            *)
(***************************************************************************)
UniformImage(p) == [b \in 1..ImgBands |-> p]

InitScenario4 ==
  /\ width = 1200
  /\ height = 800
  /\ terrainImage = UniformImage(Grey)
  /\ locations = << >>
  /\ pc = "idle"
  /\ closure = NoClosure
  /\ batch = << >>
  /\ suitableAreas = << >>
  /\ avoidAreas = << >>
  /\ newLocations = << >>
  /\ attempts = 0
  /\ call = NoCall
  /\ runs = 0
  /\ FormClosed
  /\ ElsewhereIdle

FiveResources == << "resource", "resource", "resource", "resource", "resource" >>

NextScenario4 ==
  \/ GenerateLocations
  \/ ServiceRejects
  \/ \E tape \in Tapes : ServiceResolves(FiveResources, tape)
  \/ \E kx \in RandomDraws, ky \in RandomDraws : TerrainCandidate(kx, ky)
  \/ Commit

SpecScenario4 == InitScenario4 /\ [][NextScenario4]_vars

(***************************************************************************)
(* Properties.                                                             *)
(***************************************************************************)
\* The call that returned last: what it was given and what it returned.
Returned(path) == pc = "placing" /\ call.path = path
priorLocations == closure.locations \o SubSeq(newLocations, 1, Len(newLocations) - 1)
result == newLocations[Len(newLocations)]

InMarginBox(x, y) ==
  /\ 50 <= x /\ x <= closure.width - 50
  /\ 50 <= y /\ y <= closure.height - 50

OutsideEveryDisc(x, y) ==
  \A i \in DOMAIN avoidAreas :
    Dist2(avoidAreas[i].x, avoidAreas[i].y, x, y) >= avoidAreas[i].radius * avoidAreas[i].radius

\* C1: a coordinate returned for an accepted terrain candidate, after jitter
\* and clamping, is at distance >= 80 from every existing location.
C1_ReturnedFarFromExisting ==
  Returned("terrain") => FarFromAll(priorLocations, result.x, result.y)

\* C2: a coordinate returned for an accepted terrain candidate, after jitter
\* and clamping, lies outside the disc of every avoid region.
C2_ReturnedOutsideAvoidDiscs ==
  Returned("terrain") => OutsideEveryDisc(result.x, result.y)

\* C3: every returned coordinate, on each return path and for every map size
\* the settings can hold, lies in [50, width - 50] x [50, height - 50].
C3_ReturnedInsideMargin ==
  (pc = "placing" /\ call.path \in {"draw", "lastResort", "terrain", "fallback"})
    => InMarginBox(result.x, result.y)

\* C5: with a non-empty suitableAreas list of which no candidate passes the
\* checks, the call still returns: the result is one random draw, inside the
\* margin region, checked against neither the spacing nor the avoid regions.
C5_FallbackIsUncheckedDrawInMargin ==
  Returned("fallback") =>
    /\ Len(suitableAreas) > 0
    /\ \A i \in DOMAIN suitableAreas :
         ~Accepts(suitableAreas[i], result.type, priorLocations, avoidAreas)
    /\ result.x = call.drawX /\ result.y = call.drawY
    /\ InMarginBox(result.x, result.y)

\* C6: every call terminates.  Without terrain at most 50 draws are tested,
\* each failed test advances the loop counter, and after 50 failures one
\* further draw is returned; with terrain each candidate is examined at most
\* once before the call returns.
C6_CallTerminates ==
  /\ [](/\ attempts \in 0..50
        /\ call.path \in {"draw", "retry"} => call.tested \in 1..50
        /\ call.path = "lastResort" => call.tested = 50
        /\ call.path = "terrain" => call.tested \in 1..Len(suitableAreas)
        /\ call.path = "fallback" => call.tested = Len(suitableAreas)
        /\ InCall => ENABLED (\E kx \in RandomDraws, ky \in RandomDraws :
                                \/ RandomAttempt(kx, ky) \/ RandomLastResort(kx, ky)
                                \/ TerrainCandidate(kx, ky) \/ TerrainFallback(kx, ky)))
  /\ [][(InCall /\ newLocations' = newLocations) => attempts' = attempts + 1]_vars

\* C7: without terrain, a draw returned from inside the loop is at distance
\* >= 80 from every existing location and every draw tested before it was
\* too close; only the draw after 50 failures is returned unchecked.
C7_FirstFarDrawIsReturned ==
  /\ Returned("draw") =>
       /\ result.x = call.drawX /\ result.y = call.drawY
       /\ FarFromAll(priorLocations, result.x, result.y)
  /\ call.path = "retry" => ~call.far
  /\ (pc = "placing" /\ Len(suitableAreas) = 0 /\ Len(newLocations) > 0
        /\ call.path # "retry" /\ ~FarFromAll(priorLocations, result.x, result.y))
       => call.path = "lastResort" /\ call.tested = 50

\* C8: suitableAreas is ordered by score, highest first.
C8_SuitableSortedDescending ==
  \A i \in 1..(Len(suitableAreas) - 1) :
    suitableAreas[i].score >= suitableAreas[i + 1].score

\* The grid of sample points and the water test, as specified.
GridPoints(size) == {v \in 1..size : v % 20 = 0 /\ v < size - 20}
StatedWater(p) == p.b > p.r + 30 /\ p.b > p.g + 30
Analysed == pc = "placing" /\ closure.terrainImage # NoImage
closurePixel(x, y) == PixelAt(closure.terrainImage, x, y, closure.width)

\* C9: every avoid region is centred on a water-classified grid sample and
\* has radius 30, and every water-classified grid sample has exactly one.
C9_AvoidRegionsAreTheWaterSamples ==
  Analysed =>
    /\ \A i \in DOMAIN avoidAreas :
         /\ avoidAreas[i].radius = 30
         /\ avoidAreas[i].x \in GridPoints(closure.width)
         /\ avoidAreas[i].y \in GridPoints(closure.height)
         /\ StatedWater(closurePixel(avoidAreas[i].x, avoidAreas[i].y))
    /\ \A x \in GridPoints(closure.width), y \in GridPoints(closure.height) :
         StatedWater(closurePixel(x, y)) =>
           Cardinality({i \in DOMAIN avoidAreas :
                          avoidAreas[i].x = x /\ avoidAreas[i].y = y}) = 1

AllDeepBlue == \A b \in DOMAIN closure.terrainImage : StatedWater(closure.terrainImage[b])
OneAvoidPerSample ==
  /\ Len(avoidAreas) = Cardinality(GridPoints(closure.width))
                         * Cardinality(GridPoints(closure.height))
  /\ \A i \in DOMAIN avoidAreas : avoidAreas[i].radius = 30

\* C10 as stated: on an all deep blue surface every sample is an avoid region
\* of radius 30 and none is kept in suitableAreas.
C10_DeepBlueKeepsNothing ==
  (Analysed /\ AllDeepBlue) => (OneAvoidPerSample /\ suitableAreas = << >>)

OutsideModerateBand(p) == p.r + p.g + p.b < 3 * 80 \/ p.r + p.g + p.b > 3 * 160

\* C10 amended: the same, for deep blue pixels whose brightness lies outside
\* the moderate band 80..160; those score exactly 20 before jitter.
C10_DarkDeepBlueKeepsNothing ==
  (/\ Analysed /\ AllDeepBlue
   /\ \A b \in DOMAIN closure.terrainImage : OutsideModerateBand(closure.terrainImage[b]))
    => /\ OneAvoidPerSample
       /\ suitableAreas = << >>
       /\ \A b \in DOMAIN closure.terrainImage : BaseScoreOf(closure.terrainImage[b]) = 20

\* C4: five resources placed one after another on an empty 1200 x 800 map of
\* uniform moderate brightness are pairwise at least 80 apart.
C4_FiveResourcesPairwiseFar ==
  (/\ pc = "placing" /\ closure.width = 1200 /\ closure.height = 800
   /\ closure.locations = << >> /\ batch = FiveResources
   /\ Len(newLocations) = Len(batch))
    => \A i \in DOMAIN newLocations, j \in DOMAIN newLocations :
         i < j => Dist2(newLocations[i].x, newLocations[i].y,
                        newLocations[j].x, newLocations[j].y) >= 80 * 80

(***************************************************************************)
(* Reachable cases of the properties.                                      *)
(***************************************************************************)
C6_Witness == Returned("lastResort") /\ call.tested = 50 /\ Len(priorLocations) > 0

C7_Witness ==
  /\ Returned("draw") /\ call.tested > 1
  /\ Len(priorLocations) > 0

C8_Witness ==
  /\ pc = "placing"
  /\ \E i \in DOMAIN suitableAreas, j \in DOMAIN suitableAreas :
       /\ i < j
       /\ suitableAreas[i].score > suitableAreas[j].score
       /\ suitableAreas[i].x > suitableAreas[j].x

C9_Witness ==
  /\ Analysed
  /\ Len(avoidAreas) > 0
  /\ \E x \in GridPoints(closure.width), y \in GridPoints(closure.height) :
       ~StatedWater(closurePixel(x, y))

C10_Witness ==
  /\ Analysed /\ AllDeepBlue
  /\ \A b \in DOMAIN closure.terrainImage : OutsideModerateBand(closure.terrainImage[b])
  /\ Len(avoidAreas) > 1

(***************************************************************************)
(* Properties of the analysis and of the call's paths.                     *)
(***************************************************************************)
EntriesAt(x, y) == {i \in DOMAIN suitableAreas : suitableAreas[i].x = x /\ suitableAreas[i].y = y}
AllMidGrey == \A b \in DOMAIN closure.terrainImage : closure.terrainImage[b] = Pixel(120, 120, 120)

\* C11: on a surface of uniform mid-grey (120, 120, 120) every grid sample
\* scores at least 100 before jitter and is kept: suitableAreas has exactly
\* one entry per grid point and avoidAreas is empty.
C11_UniformGreyKeepsEverySample ==
  (Analysed /\ AllMidGrey) =>
    /\ \A x \in GridPoints(closure.width), y \in GridPoints(closure.height) :
         /\ BaseScoreOf(closurePixel(x, y)) >= 100
         /\ Cardinality(EntriesAt(x, y)) = 1
    /\ Len(suitableAreas) = Cardinality(GridPoints(closure.width))
                              * Cardinality(GridPoints(closure.height))
    /\ \A i \in DOMAIN suitableAreas : suitableAreas[i].score >= 100 - 10
    /\ avoidAreas = << >>

C11_Witness == Analysed /\ AllMidGrey /\ Len(suitableAreas) > 4

\* C12: without a terrain image the analysis returns two empty lists and
\* every call of the batch takes the random-draw path.
C12_NoImageMeansRandomPath ==
  (pc = "placing" /\ closure.terrainImage = NoImage) =>
    /\ suitableAreas = << >>
    /\ avoidAreas = << >>
    /\ call.path \in {"none", "retry", "draw", "lastResort"}

C12_Witness ==
  /\ pc = "placing" /\ closure.terrainImage = NoImage
  /\ Len(newLocations) = 2
  /\ call.path = "lastResort"

\* C13: with no existing location and an empty suitableAreas the call returns
\* its first random draw, after one attempt, and the coordinate lies inside
\* the margin region.
C13_FirstDrawReturnedInMargin ==
  (/\ pc = "placing" /\ Len(newLocations) = 1 /\ priorLocations = << >>
   /\ suitableAreas = << >> /\ call.path # "retry")
    => /\ call.path = "draw" /\ call.tested = 1
       /\ result.x = call.drawX /\ result.y = call.drawY
       /\ InMarginBox(result.x, result.y)

(***************************************************************************)
(* analyzeTerrainForPlacement applied alone, to the terrain and map size   *)
(* of the component, with the random stream it read kept in jitter.        *)
(***************************************************************************)
Analyze(tape) ==
  /\ LET a == analyzeTerrainForPlacement(terrainImage, width, height, tape)
     IN /\ suitableAreas' = a.suitableAreas
        /\ avoidAreas' = a.avoidAreas
  /\ jitter' = tape
  /\ UNCHANGED << elsewhere, now, form, settings, locations, pc, closure, batch, newLocations,
                  attempts, call, runs >>

InitAnalysis ==
  /\ width \in MapWidths
  /\ height \in MapHeights
  /\ terrainImage \in {NoImage} \cup Images
  /\ locations = << >>
  /\ pc = "idle"
  /\ closure = NoClosure
  /\ batch = << >>
  /\ suitableAreas = << >>
  /\ avoidAreas = << >>
  /\ newLocations = << >>
  /\ attempts = 0
  /\ call = NoCall
  /\ runs = 0
  /\ FormClosed
  /\ ElsewhereIdle

NextAnalysis == \E tape \in Tapes : Analyze(tape)

SpecAnalysis == InitAnalysis /\ [][NextAnalysis]_vars

\* The latest run and any other run over the same surface and map size.
AnalysisRun == jitter # NoTape
OtherRun(tape) == analyzeTerrainForPlacement(terrainImage, width, height, tape)
Points(areas) == {<< areas[i].x, areas[i].y >> : i \in DOMAIN areas}
Regions(avoid) == {avoid[i] : i \in DOMAIN avoid}
SymmetricDifference(S, T) == (S \ T) \cup (T \ S)

\* C14 as stated: two runs over the same surface and map size return the same
\* set of avoid regions and the same set of suitable points, whatever jitter
\* values they draw.
C14_RunsAgreeOnComposition ==
  AnalysisRun =>
    \A tape \in Tapes :
      /\ Regions(OtherRun(tape).avoidAreas) = Regions(avoidAreas)
      /\ Points(OtherRun(tape).suitableAreas) = Points(suitableAreas)

\* The score of the sample at (x, y) before jitter lies within the reach of
\* the jitter around the threshold: above 30 and at most 50.
NearThreshold(x, y) ==
  LET base == BaseScoreOf(PixelAt(terrainImage, x, y, width))
  IN base > 30 /\ base <= 50

\* C14 amended: two runs over the same surface and map size return the same
\* set of avoid regions, and their sets of suitable points differ at most in
\* samples whose score before jitter is above 30 and at most 50.
C14_RunsAgreeAwayFromThreshold ==
  AnalysisRun =>
    \A tape \in Tapes :
      /\ Regions(OtherRun(tape).avoidAreas) = Regions(avoidAreas)
      /\ \A p \in SymmetricDifference(Points(OtherRun(tape).suitableAreas),
                                      Points(suitableAreas)) :
           NearThreshold(p[1], p[2])

C14_Witness ==
  /\ AnalysisRun
  /\ Len(avoidAreas) > 0
  /\ \E tape \in Tapes :
       /\ OtherRun(tape).suitableAreas # suitableAreas
       /\ Points(OtherRun(tape).suitableAreas) = Points(suitableAreas)
       /\ Points(suitableAreas) # {}
  /\ \E tape \in Tapes :
       Points(OtherRun(tape).suitableAreas) # Points(suitableAreas)

\* The number of the loop turn that samples (x, y), x outer and y inner, and
\* the final score of that sample in the latest run.
TurnOf(x, y) ==
  Cardinality({p \in GridPoints(width) \X GridPoints(height) :
                 p[1] < x \/ (p[1] = x /\ p[2] <= y)})
FinalScore(x, y) ==
  BaseScoreOf(PixelAt(terrainImage, x, y, width))
    + ScoreJitter(jitter[(TurnOf(x, y) - 1) % JitterPeriod])

\* C20: every entry of suitableAreas lies on the sampling grid and carries
\* the final score of its sample, which is above 40; every grid sample whose
\* final score is above 40 has exactly one entry.
C20_SuitableAreTheSamplesAbove40 ==
  (AnalysisRun /\ terrainImage # NoImage) =>
    /\ \A i \in DOMAIN suitableAreas :
         /\ suitableAreas[i].x \in GridPoints(width)
         /\ suitableAreas[i].y \in GridPoints(height)
         /\ suitableAreas[i].score = FinalScore(suitableAreas[i].x, suitableAreas[i].y)
         /\ suitableAreas[i].score > 40
    /\ \A x \in GridPoints(width), y \in GridPoints(height) :
         Cardinality(EntriesAt(x, y)) = IF FinalScore(x, y) > 40 THEN 1 ELSE 0

C20_Witness ==
  /\ AnalysisRun /\ terrainImage # NoImage
  /\ Len(suitableAreas) > 1
  /\ \E x \in GridPoints(width), y \in GridPoints(height) : FinalScore(x, y) <= 40

(***************************************************************************)
(* One item of any type, recognized or not, on a 200 x 120 map with        *)
(* terrain; the location on the map, if any, was added with or without a   *)
(* click on the canvas.                                                    *)
(***************************************************************************)
\* loc.type is whatever the service answered; "quest" stands for the types
\* outside the enumeration.
AnyTypes == LocationTypes \cup {"quest"}
OneItemBatches == {<< t >> : t \in AnyTypes}

InitTypes ==
  /\ width = 200
  /\ height = 120
  /\ terrainImage \in Images
  /\ locations \in {<< >>, << Location(<< "location", 1 >>, 0, 0, "landmark") >>,
                    << Location(<< "location", 1 >>, 130, 50, "landmark") >>}
  /\ pc = "idle"
  /\ closure = NoClosure
  /\ batch = << >>
  /\ suitableAreas = << >>
  /\ avoidAreas = << >>
  /\ newLocations = << >>
  /\ attempts = 0
  /\ call = NoCall
  /\ runs = 0
  /\ FormClosed
  /\ ElsewhereIdle

NextTypes ==
  \/ GenerateLocations
  \/ ServiceRejects
  \/ \E items \in OneItemBatches, tape \in Tapes : ServiceResolves(items, tape)
  \/ \E kx \in RandomDraws, ky \in RandomDraws : RandomAttempt(kx, ky)
  \/ \E kx \in RandomDraws, ky \in RandomDraws : RandomLastResort(kx, ky)
  \/ \E kx \in RandomDraws, ky \in RandomDraws : TerrainCandidate(kx, ky)
  \/ \E kx \in RandomDraws, ky \in RandomDraws : TerrainFallback(kx, ky)
  \/ Commit

SpecTypes == InitTypes /\ [][NextTypes]_vars

\* C16: generateLocations never passes a type outside the enumeration to
\* findOptimalPlacement and never puts a location of such a type on the map.
C16_UnrecognizedTypeRejected ==
  /\ InCall => locationType \in {"mission", "landmark", "shop", "npc", "resource"}
  /\ \A i \in DOMAIN newLocations :
       newLocations[i].type \in {"mission", "landmark", "shop", "npc", "resource"}
  /\ \A i \in DOMAIN locations :
       locations[i].type \in {"mission", "landmark", "shop", "npc", "resource"}

\* The bonus table and the three conditions, as specified.
StatedBonus(type, score) ==
  CASE type = "landmark" /\ score > 80 -> 20
    [] type = "shop" /\ score > 60 /\ score < 90 -> 15
    [] type = "mission" /\ score > 70 -> 10
    [] type = "resource" /\ score > 50 -> 25
    [] type = "npc" /\ score > 60 -> 15
    [] OTHER -> 0
Qualifies(i) ==
  /\ FarFromAll(priorLocations, suitableAreas[i].x, suitableAreas[i].y)
  /\ OutsideEveryDisc(suitableAreas[i].x, suitableAreas[i].y)
  /\ suitableAreas[i].score + StatedBonus(result.type, suitableAreas[i].score) > 50

\* C18: the accepted candidate is the first of suitableAreas, in list order,
\* that is at distance >= 80 from every existing location, outside every
\* avoid disc and whose score plus type bonus exceeds 50; the call falls
\* back to a random draw only when no candidate is.
C18_AcceptsFirstQualifying ==
  /\ Returned("terrain") =>
       /\ call.candidate \in DOMAIN suitableAreas
       /\ Qualifies(call.candidate)
       /\ \A j \in 1..(call.candidate - 1) : ~Qualifies(j)
  /\ Returned("fallback") => \A j \in DOMAIN suitableAreas : ~Qualifies(j)

C18_Witness ==
  /\ Returned("terrain")
  /\ result.type = "shop"
  /\ call.candidate > 2
  /\ StatedBonus(result.type, suitableAreas[call.candidate].score) = 15
  /\ Len(avoidAreas) > 0
  /\ \E j \in 1..(call.candidate - 1) :
       ~FarFromAll(priorLocations, suitableAreas[j].x, suitableAreas[j].y)

(***************************************************************************)
(* The add-location form and the canvas, used while generateLocations is   *)
(* idle or waiting for the service (the placement itself runs in one       *)
(* piece, so no handler runs in between its steps).                        *)
(***************************************************************************)
UserCanAct == pc \in {"idle", "awaiting"}

\* The 'Add New Location' and 'Add Location' buttons.
OpenAddForm ==
  /\ UserCanAct
  /\ isAddingLocation' = TRUE
  /\ UNCHANGED << newLocation, selectedLocation, elsewhere, now, jitter, settings,
                  locations, engine >>

\* The name input: named tells whether the text has a non-blank character.
SetName(named) ==
  /\ UserCanAct
  /\ isAddingLocation
  /\ newLocation' = [newLocation EXCEPT !.named = named]
  /\ UNCHANGED << isAddingLocation, selectedLocation, elsewhere, now, jitter, settings,
                  locations, engine >>

\* locations.find(location => distance <= 12 && location.visible)
RECURSIVE FindClicked(_, _, _, _)
FindClicked(locs, i, x, y) ==
  IF i > Len(locs) THEN NoSelection
  ELSE IF Dist2(locs[i].x, locs[i].y, x, y) <= 12 * 12 /\ locs[i].visible THEN locs[i]
  ELSE FindClicked(locs, i + 1, x, y)

handleCanvasClick(x, y) ==
  /\ UserCanAct
  /\ IF isAddingLocation
     THEN /\ newLocation' = [newLocation EXCEPT !.x = x, !.y = y]
          /\ UNCHANGED selectedLocation
     ELSE /\ selectedLocation' = FindClicked(locations, 1, x, y)
          /\ UNCHANGED newLocation
  /\ UNCHANGED << isAddingLocation, elsewhere, now, jitter, settings, locations, engine >>

\* The 'Add' button of the form.
addLocation ==
  /\ UserCanAct
  /\ isAddingLocation
  /\ Len(locations) <= MaxExisting
  /\ now <= MaxAdded
  /\ IF ~newLocation.named
     THEN UNCHANGED << locations, newLocation, isAddingLocation, now >>
     ELSE /\ locations' = Append(locations,
                                 Location(<< "location", now >>, newLocation.x,
                                          newLocation.y, newLocation.type))
          /\ newLocation' = EmptyForm
          /\ isAddingLocation' = FALSE
          /\ now' = now + 1
  /\ UNCHANGED << selectedLocation, elsewhere, jitter, settings, engine >>

\* The 'Cancel' button of the form.
CancelAdd ==
  /\ UserCanAct
  /\ isAddingLocation
  /\ isAddingLocation' = FALSE
  /\ UNCHANGED << newLocation, selectedLocation, elsewhere, now, jitter, settings,
                  locations, engine >>

\* A row of the locations list is clicked.
SelectInList(i) ==
  /\ UserCanAct
  /\ i \in DOMAIN locations
  /\ selectedLocation' = locations[i]
  /\ UNCHANGED << isAddingLocation, newLocation, elsewhere, now, jitter, settings,
                  locations, engine >>

\* deleteLocation(id), run against the state s of the locations
Without(locs, id) == SelectSeq(locs, LAMBDA l : l.id # id)
\* deleteLocation without the reset of the selection.
deleteLocationOnly(id) ==
  /\ locations' = Without(locations, id)
  /\ UNCHANGED selectedLocation

deleteLocation(id) ==
  /\ locations' = Without(locations, id)
  /\ selectedLocation' = IF selectedLocation.id = id THEN NoSelection ELSE selectedLocation

\* The 'Delete Selected' button and the delete button of a list row.
DeleteSelected ==
  /\ UserCanAct
  /\ selectedLocation # NoSelection
  /\ deleteLocation(selectedLocation.id)
  /\ UNCHANGED << isAddingLocation, newLocation, elsewhere, now, jitter, settings, engine >>

DeleteInList(i) ==
  /\ UserCanAct
  /\ i \in DOMAIN locations
  /\ deleteLocation(locations[i].id)
  /\ UNCHANGED << isAddingLocation, newLocation, elsewhere, now, jitter, settings, engine >>

\* toggleLocationVisibility(id)
Toggled(locs, id) ==
  [i \in DOMAIN locs |->
     IF locs[i].id = id THEN [locs[i] EXCEPT !.visible = ~locs[i].visible] ELSE locs[i]]
toggleLocationVisibility(id) ==
  /\ locations' = Toggled(locations, id)
  /\ UNCHANGED selectedLocation

\* The 'Hide Selected' / 'Show Selected' button and the eye button of a row.
ToggleSelected ==
  /\ UserCanAct
  /\ selectedLocation # NoSelection
  /\ toggleLocationVisibility(selectedLocation.id)
  /\ UNCHANGED << isAddingLocation, newLocation, elsewhere, now, jitter, settings, engine >>

ToggleInList(i) ==
  /\ UserCanAct
  /\ i \in DOMAIN locations
  /\ toggleLocationVisibility(locations[i].id)
  /\ UNCHANGED << isAddingLocation, newLocation, elsewhere, now, jitter, settings, engine >>

\* The 'Edit Selected' button: the form takes the selected location's fields
\* (its name is not blank), and the location is deleted.
EditSelected ==
  /\ UserCanAct
  /\ selectedLocation # NoSelection
  /\ newLocation' = [type |-> selectedLocation.type, named |-> TRUE,
                     x |-> selectedLocation.x, y |-> selectedLocation.y]
  /\ isAddingLocation' = TRUE
  /\ deleteLocation(selectedLocation.id)
  /\ UNCHANGED << elsewhere, now, jitter, settings, engine >>

\* The 'Clear All' button.
ClearAll ==
  /\ UserCanAct
  /\ locations' = << >>
  /\ selectedLocation' = NoSelection
  /\ UNCHANGED << isAddingLocation, newLocation, elsewhere, now, jitter, settings, engine >>

InitInterleaved ==
  /\ width = 200
  /\ height = 120
  /\ terrainImage = UniformImage(Grey)
  /\ locations = << >>
  /\ pc = "idle"
  /\ closure = NoClosure
  /\ batch = << >>
  /\ suitableAreas = << >>
  /\ avoidAreas = << >>
  /\ newLocations = << >>
  /\ attempts = 0
  /\ call = NoCall
  /\ runs = 0
  /\ FormClosed
  /\ ElsewhereIdle

\* The jitter stream of an analysis whose every Math.random() returns 0.
LowTape == [i \in 0..(JitterPeriod - 1) |-> 0]

NextInterleaved ==
  \/ OpenAddForm
  \/ \E named \in BOOLEAN : SetName(named)
  \/ \E x \in ClickXs, y \in ClickYs : handleCanvasClick(x, y)
  \/ addLocation
  \/ CancelAdd
  \/ GenerateLocations
  \/ ServiceRejects
  \/ \E items \in Batches : ServiceResolves(items, LowTape)
  \/ \E kx \in RandomDraws, ky \in RandomDraws : TerrainCandidate(kx, ky)
  \/ \E kx \in RandomDraws, ky \in RandomDraws : TerrainFallback(kx, ky)
  \/ Commit

SpecInterleaved == InitInterleaved /\ [][NextInterleaved]_vars

\* C17: the items of a batch are placed in the order given, and the call for
\* the i-th item receives the locations on the map followed by exactly the
\* i - 1 placements made so far in this batch.
C17_CallGetsMapThenBatchSoFar ==
  pc = "placing" =>
    /\ Len(newLocations) <= Len(batch)
    /\ \A i \in DOMAIN newLocations : newLocations[i].type = batch[i]
    /\ InCall => existingLocations = locations \o newLocations

(***************************************************************************)
(* Frame of the two operations, and the coordinate of an accepted          *)
(* candidate.                                                              *)
(***************************************************************************)
\* C15: the analysis and every step of a findOptimalPlacement call leave the
\* locations on the map, the map settings and the list of existing locations
\* the call was given unchanged; a call also leaves suitableAreas and
\* avoidAreas unchanged.
C15_CallsHaveNoSideEffects ==
  [][/\ (pc = "awaiting" /\ pc' = "placing") =>
          /\ locations' = locations
          /\ closure' = closure
          /\ width' = width /\ height' = height /\ terrainImage' = terrainImage
     /\ InCall =>
          /\ suitableAreas' = suitableAreas
          /\ avoidAreas' = avoidAreas
          /\ locations' = locations
          /\ closure' = closure
          /\ width' = width /\ height' = height /\ terrainImage' = terrainImage
          /\ SubSeq(existingLocations', 1, Len(existingLocations)) = existingLocations
    ]_vars

C15_Witness ==
  /\ Returned("terrain")
  /\ Len(closure.locations) > 0
  /\ Len(avoidAreas) > 0
  /\ Len(suitableAreas) > 1

\* clamp(v, lo, hi) as the code computes it
StatedClamp(v, lo, hi) == IF (IF v < hi THEN v ELSE hi) > lo THEN (IF v < hi THEN v ELSE hi) ELSE lo
accepted == suitableAreas[call.candidate]
Within(a, b, d) == a - b <= d /\ b - a <= d

\* C19: for an accepted candidate (cx, cy) the call returns
\* x = clamp(cx + jx, 50, width - 50) and y = clamp(cy + jy, 50, height - 50)
\* for offsets jx, jy of magnitude at most 20; a result that was not clamped
\* is within 20 of the candidate on each axis.
C19_ResultIsClampedJitteredCandidate ==
  Returned("terrain") =>
    /\ call.candidate \in DOMAIN suitableAreas
    /\ \E jx \in -20..20, jy \in -20..20 :
         /\ result.x = StatedClamp(accepted.x + jx, 50, closure.width - 50)
         /\ result.y = StatedClamp(accepted.y + jy, 50, closure.height - 50)
         /\ (result.x = accepted.x + jx) => Within(result.x, accepted.x, 20)
         /\ (result.y = accepted.y + jy) => Within(result.y, accepted.y, 20)
    /\ (50 < result.x /\ result.x < closure.width - 50) => Within(result.x, accepted.x, 20)
    /\ (50 < result.y /\ result.y < closure.height - 50) => Within(result.y, accepted.y, 20)

C19_Witness ==
  /\ Returned("terrain")
  /\ 50 < result.x /\ result.x < closure.width - 50
  /\ 50 < result.y /\ result.y < closure.height - 50
  /\ result.x - accepted.x # result.y - accepted.y
  /\ result.x # accepted.x

(***************************************************************************)
(* The accepted candidate, the item type and water.                        *)
(***************************************************************************)
FirstAcceptedFor(type) == FirstAccepted(suitableAreas, 1, type, priorLocations, avoidAreas)

\* C21: the candidate a call accepts does not depend on the item type: with
\* the same suitableAreas, avoidAreas and existing locations a call of any
\* other type, recognized or not, accepts the same candidate or also falls
\* back, and a score plus its bonus exceeds 50 exactly when the score does.
C21_AcceptedCandidateIgnoresType ==
  /\ Returned("terrain") => \A t \in AnyTypes : FirstAcceptedFor(t) = call.candidate
  /\ Returned("fallback") => \A t \in AnyTypes : FirstAcceptedFor(t) = 0
  /\ \A i \in DOMAIN suitableAreas, t \in AnyTypes :
       (suitableAreas[i].score + typeBonus(t, suitableAreas[i].score) > 50)
         <=> (suitableAreas[i].score > 50)

C21_Witness ==
  /\ Returned("terrain")
  /\ result.type = "quest"
  /\ call.candidate > 1
  /\ typeBonus("resource", accepted.score) = 25
  /\ typeBonus("shop", accepted.score) = 0
  /\ \E i \in DOMAIN suitableAreas : suitableAreas[i].score <= 50

\* C22: the accepted candidate is never a grid sample classified as water,
\* also when water samples were kept in suitableAreas.
C22_WaterNeverAccepted ==
  Returned("terrain") => ~StatedWater(closurePixel(accepted.x, accepted.y))

C22_Witness ==
  /\ Returned("terrain")
  /\ \E i \in DOMAIN suitableAreas :
       /\ StatedWater(closurePixel(suitableAreas[i].x, suitableAreas[i].y))
       /\ suitableAreas[i].score > 50
       /\ FarFromAll(priorLocations, suitableAreas[i].x, suitableAreas[i].y)

(***************************************************************************)
(* The whole map editor: the form, the selection, the list and the edit    *)
(* controls, with generateLocations running on a 200 x 120 grey terrain.   *)
(***************************************************************************)
\* Math.random() returning 0.
LowDraw == 0

NextDashboard ==
  \/ OpenAddForm
  \/ \E named \in BOOLEAN : SetName(named)
  \/ \E x \in ClickXs, y \in ClickYs : handleCanvasClick(x, y)
  \/ addLocation
  \/ CancelAdd
  \/ \E i \in 1..(MaxExisting + MaxBatch + 1) : SelectInList(i)
  \/ DeleteSelected
  \/ \E i \in 1..(MaxExisting + MaxBatch + 1) : DeleteInList(i)
  \/ ToggleSelected
  \/ \E i \in 1..(MaxExisting + MaxBatch + 1) : ToggleInList(i)
  \/ EditSelected
  \/ ClearAll
  \/ GenerateLocations
  \/ ServiceRejects
  \/ ServiceResolves(<< "resource" >>, LowTape)
  \/ TerrainCandidate(LowDraw, LowDraw)
  \/ TerrainFallback(LowDraw, LowDraw)
  \/ Commit

SpecDashboard == InitInterleaved /\ [][NextDashboard]_vars

\* C23: when a batch is committed the list becomes the locations as they
\* stand at that moment followed by the batch in order, so a location added
\* or deleted while the service call was pending is neither lost nor
\* restored; the run itself changes the list at no other step.
C23_CommitAppendsToCurrentList ==
  [][/\ (pc = "placing" /\ pc' = "idle") => locations' = locations \o newLocations
     /\ (pc = "awaiting" /\ pc' = "placing") => locations' = locations
     /\ (pc = "placing" /\ pc' = "placing") => locations' = locations
    ]_vars

C23_Witness ==
  /\ pc = "placing"
  /\ Len(batch) > 0 /\ Len(newLocations) = Len(batch)
  /\ \E i \in DOMAIN closure.locations :
       \A j \in DOMAIN locations : locations[j].id # closure.locations[i].id
  /\ \E j \in DOMAIN locations :
       \A i \in DOMAIN closure.locations : locations[j].id # closure.locations[i].id

\* C24: selectedLocation is null or has the id of a location on the map.
C24_SelectionIsOnTheMap ==
  selectedLocation # NoSelection =>
    \E i \in DOMAIN locations : locations[i].id = selectedLocation.id

C24_Witness ==
  /\ selectedLocation # NoSelection
  /\ selectedLocation.id[1] = "generated"
  /\ Len(locations) > 1
  /\ pc = "idle"

\* C25: a non-null selectedLocation equals the entry of locations with its
\* id, the visible flag included.
C25_SelectionEqualsItsEntry ==
  selectedLocation # NoSelection =>
    \A i \in DOMAIN locations :
      locations[i].id = selectedLocation.id => locations[i] = selectedLocation

\* C29: opening the add-location form, by 'Add Location' or by 'Edit
\* Selected', and pressing Cancel each leave the locations list as it was.
C29_OpenThenCancelKeepsLocations ==
  [][/\ (~isAddingLocation /\ isAddingLocation') => locations' = locations
     /\ (isAddingLocation /\ ~isAddingLocation' /\ now' = now) => locations' = locations
    ]_vars


(***************************************************************************)
(* generateTerrain: the service call, and the image loads it starts.       *)
(***************************************************************************)
\* generateTerrain runs started in one behaviour.
MaxTerrainRuns == 3

\* What generateTerrain and the image callbacks leave alone.
besidesTerrain == << width, height, locations, engine, form, jitter, now, iconGen >>

\* The button is disabled while a run is pending; up to the await.
generateTerrain ==
  /\ ~isGeneratingTerrain
  /\ terrainRuns < MaxTerrainRuns
  /\ isGeneratingTerrain' = TRUE
  /\ terrainRuns' = terrainRuns + 1
  /\ UNCHANGED << besidesTerrain, terrainImage, terrainImageUrl, terrainImageSrc, loading >>

\* The service answers with a url (one per run): the url is shown at once,
\* a new Image starts loading it, and the finally block re-enables the
\* button without waiting for the load.
TerrainResolves ==
  /\ isGeneratingTerrain
  /\ terrainImageUrl' = terrainRuns
  /\ loading' = loading \cup {terrainRuns}
  /\ isGeneratingTerrain' = FALSE
  /\ UNCHANGED << besidesTerrain, terrainImage, terrainImageSrc, terrainRuns >>

\* The service answers without a url.
TerrainResolvesEmpty ==
  /\ isGeneratingTerrain
  /\ isGeneratingTerrain' = FALSE
  /\ UNCHANGED << besidesTerrain, terrainImage, terrainImageUrl, terrainImageSrc,
                  loading, terrainRuns >>

\* The service call throws: catch, then finally.
TerrainRejects ==
  /\ isGeneratingTerrain
  /\ isGeneratingTerrain' = FALSE
  /\ UNCHANGED << besidesTerrain, terrainImage, terrainImageUrl, terrainImageSrc,
                  loading, terrainRuns >>

\* img.onload of the Image whose src is url: that image becomes the terrain.
ImageLoads(url, img) ==
  /\ url \in loading
  /\ terrainImage' = img
  /\ terrainImageSrc' = url
  /\ loading' = loading \ {url}
  /\ UNCHANGED << besidesTerrain, terrainImageUrl, isGeneratingTerrain, terrainRuns >>

\* img.onerror of the Image whose src is url: a toast only.
ImageFails(url) ==
  /\ url \in loading
  /\ loading' = loading \ {url}
  /\ UNCHANGED << besidesTerrain, terrainImage, terrainImageUrl, terrainImageSrc,
                  isGeneratingTerrain, terrainRuns >>

InitTerrain ==
  /\ width = 200
  /\ height = 120
  /\ terrainImage = NoImage
  /\ locations = << >>
  /\ pc = "idle"
  /\ closure = NoClosure
  /\ batch = << >>
  /\ suitableAreas = << >>
  /\ avoidAreas = << >>
  /\ newLocations = << >>
  /\ attempts = 0
  /\ call = NoCall
  /\ runs = 0
  /\ FormClosed
  /\ ElsewhereIdle

NextTerrain ==
  \/ generateTerrain
  \/ TerrainResolves
  \/ TerrainResolvesEmpty
  \/ TerrainRejects
  \/ \E url \in 1..MaxTerrainRuns, img \in Images : ImageLoads(url, img)
  \/ \E url \in 1..MaxTerrainRuns : ImageFails(url)

SpecTerrain == InitTerrain /\ [][NextTerrain]_vars

\* C26: whenever terrainImage and terrainImageUrl are both set, terrainImage
\* is the image that was loaded from terrainImageUrl.
C26_TerrainIsTheOneShown ==
  (terrainImage # NoImage /\ terrainImageUrl # NoUrl) => terrainImageSrc = terrainImageUrl


(***************************************************************************)
(* A generateLocations run to its end.  The service call settles, and the  *)
(* code after the await runs to completion without waiting for the user:   *)
(* the steps of the run are taken whenever they stay possible.  The user   *)
(* is under no obligation.                                                 *)
(***************************************************************************)
RunStep ==
  \/ ServiceRejects
  \/ \E items \in Batches : ServiceResolves(items, LowTape)
  \/ TerrainCandidate(LowDraw, LowDraw)
  \/ TerrainFallback(LowDraw, LowDraw)
  \/ Commit

\* What the user does meanwhile: adding and deleting locations.
NextRuns ==
  \/ OpenAddForm
  \/ SetName(TRUE)
  \/ \E x \in ClickXs, y \in ClickYs : handleCanvasClick(x, y)
  \/ addLocation
  \/ \E i \in 1..(MaxExisting + 1) : DeleteInList(i)
  \/ GenerateLocations
  \/ RunStep

SpecRunsSettle == InitInterleaved /\ [][NextRuns]_vars /\ WF_vars(RunStep)

\* isGeneratingLocations is true from the first statement of the run to its
\* finally block.
isGeneratingLocations == pc # "idle"

\* C27: every generateLocations run eventually sets isGeneratingLocations
\* back to false; a run whose service call throws leaves the locations list
\* unchanged, and a run whose call succeeds appends exactly one location per
\* returned item, of the item's type.
C27_RunEndsAndListFollowsOutcome ==
  /\ isGeneratingLocations ~> ~isGeneratingLocations
  /\ [][ /\ (pc = "awaiting" /\ pc' = "idle") => locations' = locations
         /\ (pc = "placing" /\ pc' = "idle") =>
              /\ Len(locations') = Len(locations) + Len(batch)
              /\ SubSeq(locations', 1, Len(locations)) = locations
              /\ \A i \in DOMAIN batch :
                   /\ locations'[Len(locations) + i].type = batch[i]
                   /\ locations'[Len(locations) + i].id = << "generated", now, i - 1 >>
     ]_vars

\* A run has ended after a two-item answer, with a location the user added
\* while it was pending: both generated locations are on the map.
C27_Witness ==
  /\ ~isGeneratingLocations
  /\ runs = 1
  /\ Cardinality({i \in DOMAIN locations : locations[i].id[1] = "generated"}) = 2
  /\ \E i \in DOMAIN locations : locations[i].id[1] = "location"


(***************************************************************************)
(* The icon generator: handleGenerateIcon and its progress interval.       *)
(***************************************************************************)
\* handleGenerateIcon runs started in one behaviour; the largest batchCount.
MaxIconRuns == 2
MaxIconBatch == 2

ProgressStep == 10
ProgressCap == 90

\* What the icon generator leaves alone.
besidesIcons == << settings, locations, engine, form, jitter, now, terrainGen >>

\* The user fills in category, prompt and style, and picks a batch count.
FillIconForm(n) ==
  /\ ~isGenerating
  /\ iconForm' = [filled |-> TRUE, batchCount |-> n]
  /\ UNCHANGED << besidesIcons, isGenerating, generationProgress, timers, iconRuns,
                  generatedIcons >>

\* Up to the await: the button is disabled while a run is pending or a
\* required field is empty; the interval of this run is set.
handleGenerateIcon ==
  /\ ~isGenerating
  /\ iconForm.filled
  /\ iconRuns < MaxIconRuns
  /\ isGenerating' = TRUE
  /\ generationProgress' = 0
  /\ iconRuns' = iconRuns + 1
  /\ timers' = timers \cup {iconRuns + 1}
  /\ UNCHANGED << besidesIcons, iconForm, generatedIcons >>

\* The callback of a set interval: setGenerationProgress(prev => min(prev + 10, 90)).
ProgressTick(run) ==
  /\ run \in timers
  /\ generationProgress' =
       (IF generationProgress + ProgressStep < ProgressCap
        THEN generationProgress + ProgressStep ELSE ProgressCap)
  /\ UNCHANGED << besidesIcons, isGenerating, timers, iconRuns, iconForm, generatedIcons >>

\* blink.ai.generateImage resolves: the interval of this run is cleared, the
\* icons are put in front, the form is reset; progress is set to 100 and, in
\* the finally block of the same synchronous stretch, to 0.
IconResolves ==
  /\ isGenerating
  /\ timers' = timers \ {iconRuns}
  /\ generatedIcons' = [i \in 1..iconForm.batchCount |-> << iconRuns, i - 1 >>]
                         \o generatedIcons
  /\ iconForm' = EmptyIconForm
  /\ isGenerating' = FALSE
  /\ generationProgress' = 0
  /\ UNCHANGED << besidesIcons, iconRuns >>

\* blink.ai.generateImage throws: catch, then finally.  clearInterval is
\* not reached.
IconRejects ==
  /\ isGenerating
  /\ isGenerating' = FALSE
  /\ generationProgress' = 0
  /\ UNCHANGED << besidesIcons, timers, iconRuns, iconForm, generatedIcons >>

NextIcon ==
  \/ \E n \in 1..MaxIconBatch : FillIconForm(n)
  \/ handleGenerateIcon
  \/ \E run \in 1..MaxIconRuns : ProgressTick(run)
  \/ IconResolves
  \/ IconRejects

SpecIcon == InitTerrain /\ [][NextIcon]_vars

\* C28: once a handleGenerateIcon run has finished, generationProgress is 0
\* and stays 0 until the next run starts, and no progress timer is left set.
C28_ProgressRestsAtZero ==
  ~isGenerating => (generationProgress = 0 /\ timers = {})

====
